---- MODULE Spec2Model ----
(***************************************************************************)
(* The human-in-the-loop refinement controller of the meme generator:      *)
(* generate_meme (src/meme_refiner/pipeline.py), the FastAPI server that   *)
(* drives it (src/meme_refiner/main.py: ConnectionManager, FeedbackManager,*)
(* websocket_endpoint, _feedback_handler, generate_meme_endpoint), the     *)
(* event extractors (src/meme_agent/meme_refiner/event_handlers.py) and    *)
(* the approval tool ask_approval (src/meme_refiner/tools.py).             *)
(*                                                                         *)
(* A run is one invocation of generate_meme.  Every await of the code at   *)
(* which another asyncio task can be scheduled ends an action.             *)
(***************************************************************************)
EXTENDS Integers, Sequences, FiniteSets, TLC

\* ------------------------------------------------------------------------
\* Constants of the program and bounds of the model
\* ------------------------------------------------------------------------

MAX_ITERATIONS == 5

\* Number of WebSocket connections accepted during a behaviour.
MaxSockets == 2

\* Number of ask_approval calls followed for one run.
MaxToolCalls == 2

Clients == {"A", "B"}
RunIds == {"r1", "r2"}

\* request.client_id of a POST without client_id / the CLI path
NoClient == "None"

\* Python None for a missing call id, and an id no run ever issued
NoId == <<"None", 0>>
BogusId == <<"abc", 0>>
CallId(r, n) == <<r, n>>
CommandIds == (RunIds \X (1..MAX_ITERATIONS)) \cup {BogusId}

\* Python None for a spec / url that was not captured
NoSpec == <<"None", 0>>
NoUrl == <<"None", 0>>
SentinelSpec == <<"error: Failed to capture meme spec", 0>>

NoFeedbackHandlerMsg == "No feedback handler provided"

\* The user prompts of the requests, and Python None for a prompt not set yet
Prompts == {"AI jobs", "monday blues"}
NoPrompt == "None"

\* ------------------------------------------------------------------------
\* State
\* ------------------------------------------------------------------------

VARIABLES
    active_connections,  \* ConnectionManager.active_connections: client -> socket (0 = absent)
    sockets,             \* accepted WebSockets, in order of acceptance
    pending_feedback,    \* FeedbackManager.pending_feedback: client -> future id (NoId = absent)
    futures,             \* asyncio futures still referenced: records [id, done, result]
    run                  \* the invocations of generate_meme

vars == <<active_connections, sockets, pending_feedback, futures, run>>

\* The result of a future that is not done.
NoResult == [type |-> "None", approved |-> "None", feedback |-> "", command_id |-> NoId]

\* A future that is not done yet; `by` becomes the client_id argument of the
\* resolve_request call that completes it.
NewFuture(id) == [id |-> id, done |-> FALSE, result |-> NoResult, by |-> NoClient]

\* The local `decision` of _handle_human_decision before any decision came,
\* and the fields the controller reads of a decision, with the round it is for.
NoDecision == [approved |-> "None", feedback |-> "", round |-> 0, by |-> NoClient]

\* tool_context.tool_confirmation of ask_approval: None, or a confirmation
\* with its confirmed flag and its payload, which is a dict with or without
\* the key "feedback", or None when the confirmation came without payload.
NoPayload == [kind |-> "None", has_feedback |-> FALSE, feedback |-> ""]
Payload(has_feedback, feedback) ==
    [kind |-> "dict", has_feedback |-> has_feedback, feedback |-> feedback]
Payloads ==
    {NoPayload, Payload(FALSE, ""), Payload(TRUE, ""), Payload(TRUE, "try a funnier template")}
NoConfirmation == [present |-> FALSE, confirmed |-> FALSE, payload |-> NoPayload]
Confirmations ==
    {[present |-> TRUE, confirmed |-> c, payload |-> p] : c \in BOOLEAN, p \in Payloads}

\* The meme_url arguments the ApprovalGateway agent calls ask_approval with
MemeUrls == {<<"url", 1>>, <<"url", 2>>}

\* What one call of ask_approval did: the dict it returned (status, and
\* meme_url or feedback where the dict has the key) and the number of
\* request_confirmation calls it made; status "AttributeError" when the call
\* raised instead of returning.
ToolReturn(status, meme_url, feedback, requested) ==
    [status |-> status, meme_url |-> meme_url, feedback |-> feedback,
     requested |-> requested]

\* The calls of ask_approval made for a run: their number, and the
\* confirmation and the outcome of the last one.
NewToolContext ==
    [calls |-> 0, confirmation |-> NoConfirmation,
     returned |-> ToolReturn("None", NoUrl, "", 0)]

\* Number of generate_imgflip_meme calls followed for one run.
MaxRenderCalls == 2

\* The environment of generate_imgflip_meme: which of IMGFLIP_USERNAME and
\* IMGFLIP_PASSWORD are set to a non-empty value.
Credentials == [user : BOOLEAN, pass : BOOLEAN]

\* What requests.post and response.json() give: the documented replies of
\* the API (success with data.url, failure with or without error_message), a
\* success reply without data, a JSON body that is no object, a body that is
\* no JSON, and a request that raises (timeout, connection error).
ApiReplies == {"ok", "error_message", "error_bare", "ok_no_data", "not_object",
               "not_json", "request_exception"}

\* Python None or a string, for the "error" and "url" of a result
NoError == <<"None", "">>
Error(message) == <<"str", message>>

\* The dict generate_imgflip_meme returns; raised tells that the call raised
\* instead.
RenderResult(success, url, error) ==
    [raised |-> FALSE, success |-> success, url |-> url, error |-> error]

\* The generate_imgflip_meme calls made for a run: their number, and the
\* inputs and the result of the last one.
NoRenderCall ==
    [calls |-> 0, credentials |-> [user |-> FALSE, pass |-> FALSE], reply |-> "None",
     returned |-> RenderResult(FALSE, NoUrl, NoError)]

\* Longest list of topics given to mine_reddit_context.
MaxTopics == 2

Topics == {"AI jobs", "monday blues"}

\* What the web gives for one topic: the search finds a thread URL, only
\* another reddit.com URL, nothing, or raises; the page of a URL is fetched,
\* answers with a status other than 200, or the request raises.
WebOutcomes ==
    {[search |-> "thread", fetch |-> "page"],
     [search |-> "thread", fetch |-> "status"],
     [search |-> "thread", fetch |-> "exception"],
     [search |-> "fallback", fetch |-> "page"],
     [search |-> "no_results", fetch |-> "none"],
     [search |-> "exception", fetch |-> "none"]}

\* The lists of topics with, for each topic, what the web gives for it
TopicLists ==
    UNION {[1..n -> [topic : Topics, web : WebOutcomes]] : n \in 0..MaxTopics}

\* No mine_reddit_context call was made for the run.
NoMineCall == [called |-> FALSE, topics |-> <<>>, returned |-> <<>>]

\* No approval_request payload was built in the round so far.
NoRequest ==
    [type |-> "None", meme_url |-> NoUrl, meme_spec |-> NoSpec, iteration |-> 0,
     command_id |-> NoId]

IdleRun ==
    [pc |-> "idle", client |-> NoClient, handler |-> FALSE,
     user_prompt |-> NoPrompt, initial_prompt |-> NoPrompt, new_message |-> NoPrompt,
     iteration |-> 0, approved |-> FALSE, feedback |-> "",
     iterations |-> <<>>,
     call |-> NoId, response |-> NoId, spec |-> NoSpec, url |-> NoUrl, ran |-> <<>>,
     request |-> NoRequest, req_sent |-> FALSE, future |-> NoId,
     decision |-> NoDecision, outcomes |-> <<>>,
     resumed |-> <<>>, exit |-> "", closed |-> 0, status |-> 0,
     tool |-> NewToolContext, imgflip |-> NoRenderCall, reddit |-> NoMineCall,
     inputs |-> <<>>,
     result |-> [approved |-> FALSE, iterations |-> 0, meme_url |-> NoUrl]]

Init ==
    /\ active_connections = [c \in Clients |-> 0]
    /\ sockets = <<>>
    /\ pending_feedback = [c \in Clients |-> NoId]
    /\ futures = {}
    /\ run = [r \in RunIds |-> IdleRun]

\* ------------------------------------------------------------------------
\* Events of one pass of the stage executor (runner.run_async)
\* ------------------------------------------------------------------------

\* An ADK event, reduced to what the controller reads: the author, the kind
\* of text part, the generate_imgflip_meme function response, the id of a
\* function call listed in long_running_tool_ids, the id of a function
\* response.  Text and render results are tagged with the round that made them.
Event(author, text, imgflip, call, resp) ==
    [author |-> author, text |-> text, imgflip |-> imgflip, call |-> call, resp |-> resp]

NoText == <<"none", 0>>
NoRender == <<"none", 0>>

\* The sub_agents of the SequentialAgent, in the order of _create_pipeline
sub_agents == <<"DataGatherer", "MemeCreator", "MemeGenerator", "ApprovalGateway">>

\* The events one stage emits in a round, by what the round's script has the
\* stage do, for the call id the round issues.
StageEvents(agent, name, id) ==
    LET n == id[2]
        text(kind) == Event(agent, <<kind, n>>, NoRender, NoId, NoId)
        render(kind) == Event(agent, NoText, <<kind, n>>, NoId, NoId)
        ask(i) == Event(agent, NoText, NoRender, i, NoId)
        pending(i) == Event(agent, NoText, NoRender, NoId, i)
    IN CASE agent = "DataGatherer" -> <<text("prose")>>
         [] agent = "MemeCreator" ->
              <<text(CASE name = "degraded" -> "garbage"
                       [] name = "nonobj" -> "nonobj"
                       [] OTHER -> "obj")>>
         [] agent = "MemeGenerator" ->
              <<render(IF name \in {"degraded", "no_call"} THEN "fail" ELSE "ok")>>
         [] agent = "ApprovalGateway" ->
              CASE name = "no_call" -> <<text("prose")>>
                [] name = "wrong_resp" -> <<ask(id), pending(BogusId)>>
                [] name = "same_event" -> <<Event(agent, NoText, NoRender, id, id)>>
                [] name = "two_calls" -> <<ask(id), ask(BogusId), pending(BogusId), pending(id)>>
                [] OTHER -> <<ask(id), pending(id)>>

RECURSIVE Concat(_)
Concat(seqs) == IF seqs = <<>> THEN <<>> ELSE Head(seqs) \o Concat(Tail(seqs))

\* A pipeline that runs its last sub-agent first.
SequentialAgentLastFirst(agents, name, id) ==
    Concat([i \in 1..Len(agents) |->
              StageEvents(agents[IF i = 1 THEN Len(agents) ELSE i - 1], name, id)])

\* SequentialAgent: the sub-agents run one after the other, in list order.
SequentialAgent(agents, name, id) ==
    Concat([i \in 1..Len(agents) |-> StageEvents(agents[i], name, id)])

\* The event stream of a round's pass over the pipeline.
Script(name, id) == SequentialAgent(sub_agents, name, id)

AllScripts ==
    {"ok", "degraded", "nonobj", "no_call", "wrong_resp", "same_event", "two_calls"}

\* event_handlers.get_long_running_function_call
get_long_running_function_call(event) == event.call

\* get_function_response that takes the function response of any call
get_function_response_any(event, function_call_id) == event.resp

\* event_handlers.get_function_response: None unless the ids are equal
get_function_response(event, function_call_id) ==
    IF event.resp # NoId /\ event.resp = function_call_id THEN event.resp ELSE NoId

\* event_handlers.extract_meme_spec: json.loads of a MemeCreator text part;
\* a text that does not parse yields None, a JSON value that is no object is
\* returned as it is.
extract_meme_spec(event) ==
    IF event.author # "MemeCreator" THEN NoSpec
    ELSE CASE event.text[1] = "obj" -> <<"spec", event.text[2]>>
           [] event.text[1] = "nonobj" -> <<"nonobj", event.text[2]>>
           [] OTHER -> NoSpec

\* event_handlers.extract_meme_url
extract_meme_url(event) ==
    IF event.imgflip[1] = "ok" THEN <<"url", event.imgflip[2]>> ELSE NoUrl

\* The body of the async-for loop of _run_pipeline_iteration for one event.
\* sends counts the event_log messages handed to the feedback handler; ran
\* lists the authors of the events seen before the long-running call.
ProcessEvent(acc, event, handler) ==
    LET logged == handler /\ event.author \in {"DataGatherer", "MemeCreator", "MemeGenerator"}
        spec == extract_meme_spec(event)
        url == extract_meme_url(event)
        lrf == get_long_running_function_call(event)
        resp == get_function_response(event, acc.call)
    IN [call |-> IF acc.call = NoId THEN lrf ELSE acc.call,
        response |-> IF acc.call # NoId /\ resp # NoId THEN resp ELSE acc.response,
        spec |-> IF spec # NoSpec THEN spec ELSE acc.spec,
        url |-> IF url # NoUrl THEN url ELSE acc.url,
        ran |-> IF acc.call # NoId \/ lrf # NoId
                   \/ (acc.ran # <<>> /\ acc.ran[Len(acc.ran)] = event.author)
                THEN acc.ran ELSE Append(acc.ran, event.author),
        sends |-> acc.sends + (IF logged THEN 1 ELSE 0)
                           + (IF handler /\ spec # NoSpec THEN 1 ELSE 0)]

RECURSIVE ProcessEvents(_, _, _)
ProcessEvents(acc, events, handler) ==
    IF events = <<>> THEN acc
    ELSE ProcessEvents(ProcessEvent(acc, Head(events), handler), Tail(events), handler)

\* The locals of _run_pipeline_iteration before the first event.
RoundStart ==
    [call |-> NoId, response |-> NoId, spec |-> NoSpec, url |-> NoUrl, ran |-> <<>>,
     sends |-> 0]

\* ------------------------------------------------------------------------
\* ConnectionManager and FeedbackManager
\* ------------------------------------------------------------------------

\* ConnectionManager.send_personal_message: nothing is sent to a client that
\* is not in active_connections; send_json on a closed socket raises.
SendOutcome(c) ==
    IF c = NoClient \/ active_connections[c] = 0 THEN "skipped"
    ELSE IF sockets[active_connections[c]].open THEN "sent"
    ELSE "raise"

Future(id) == CHOOSE f \in futures : f.id = id

\* FeedbackManager.create_request: the new future takes the client's slot.
create_request(pf, client_id, id) == [pf EXCEPT ![client_id] = id]

\* FeedbackManager.resolve_request, the futures after the call
resolve_futures(client_id, data) ==
    IF pending_feedback[client_id] = NoId THEN futures
    ELSE LET f == Future(pending_feedback[client_id])
         IN IF f.done THEN futures
            ELSE (futures \ {f}) \cup
                 {[f EXCEPT !.done = TRUE, !.result = data, !.by = client_id]}

\* resolve_request that empties the whole dict instead of deleting one key
resolve_pending_clear(client_id, data) == [c \in Clients |-> NoId]

\* FeedbackManager.resolve_request, pending_feedback after the call
resolve_pending(client_id, data) == [pending_feedback EXCEPT ![client_id] = NoId]

\* ------------------------------------------------------------------------
\* generate_meme: the refinement controller
\* ------------------------------------------------------------------------

\* An exception leaves generate_meme: the endpoint turns it into HTTP 500,
\* reddit_toolset.close() is not reached.
Raised(r) ==
    [run[r] EXCEPT !.pc = "raised", !.status = IF run[r].handler THEN 500 ELSE 0]

\* POST /generate-meme (generate_meme_endpoint) up to the retry loop.  The
\* HTTPException(400) is raised inside the try block, whose except clause
\* catches every Exception and raises HTTPException(500) in its place.
\* generate_meme(request.prompt, ...) then binds user_prompt and builds
\* iteration_context with it.
PostGenerateMeme(r, c, prompt) ==
    /\ run[r].pc = "idle"
    /\ IF c = NoClient \/ active_connections[c] = 0
       THEN run' = [run EXCEPT ![r].pc = "refused", ![r].status = 500]
       ELSE run' = [run EXCEPT ![r].pc = "loop", ![r].client = c, ![r].handler = TRUE,
                               ![r].user_prompt = prompt,
                               ![r].initial_prompt = prompt]
    /\ UNCHANGED <<active_connections, sockets, pending_feedback, futures>>

\* create_meme: generate_meme without a feedback handler (refinement.main)
CreateMeme(r, prompt) ==
    /\ run[r].pc = "idle"
    /\ run' = [run EXCEPT ![r].pc = "loop", ![r].client = NoClient, ![r].handler = FALSE,
                          ![r].user_prompt = prompt,
                          ![r].initial_prompt = prompt]
    /\ UNCHANGED <<active_connections, sockets, pending_feedback, futures>>

\* The retry loop with an off-by-one bound, and with no bound at all
LoopConditionOffByOne(approved, iteration) == ~approved /\ iteration <= MAX_ITERATIONS
LoopConditionUnbounded(approved, iteration) == ~approved

\* The condition of the retry loop
LoopCondition(approved, iteration) == ~approved /\ iteration < MAX_ITERATIONS

\* The listing of the previous iterations at the start of a round calls
\* .get on every truthy meme_spec: a spec that is no dict raises.
ListingRaises(iterations) ==
    \E i \in 1..Len(iterations) : iterations[i].meme_spec[1] = "nonobj"

\* while not approved and iteration < MAX_ITERATIONS: iteration += 1, and
\* the listing of the previous iterations.
LoopHead(r) ==
    /\ run[r].pc = "loop"
    /\ IF LoopCondition(run[r].approved, run[r].iteration)
       THEN IF ListingRaises(run[r].iterations)
            THEN run' = [run EXCEPT ![r] = [Raised(r) EXCEPT !.iteration = @ + 1]]
            ELSE run' = [run EXCEPT ![r].pc = "run", ![r].iteration = @ + 1]
       ELSE run' = [run EXCEPT ![r].pc = "cleanup", ![r].exit = "loop_end"]
    /\ UNCHANGED <<active_connections, sockets, pending_feedback, futures>>

\* The round without a pending response goes on to the next round instead
\* of leaving the loop (continue for break).
AfterRunContinue(response) == IF response # NoId THEN "decide" ELSE "loop"

\* The round that captured a pending response goes on to the next round
\* without asking for the decision and without resuming.
AfterRunNoDecision(response) == IF response # NoId THEN "loop" ELSE "cleanup"

\* Where generate_meme goes after _run_pipeline_iteration: to the human
\* decision when a pending response was captured, otherwise out of the loop.
AfterRun(response) == IF response # NoId THEN "decide" ELSE "cleanup"

\* A round that is started with the feedback of the last rejection in place
\* of the topic.
NewMessageFromHistory(user_prompt, iterations) ==
    IF iterations = <<>> THEN user_prompt
    ELSE iterations[Len(iterations)].human_feedback

\* The text of the user message that starts a round's pass (new_message of
\* runner.run_async): user_prompt, whatever the history holds.
NewMessage(user_prompt, iterations) == user_prompt

\* A round that starts from the spec and the URL the round before it left.
RunPipelineIterationCarry(r, script) ==
    /\ run[r].pc = "run"
    /\ LET acc == ProcessEvents([RoundStart EXCEPT !.spec = run[r].spec, !.url = run[r].url],
                                Script(script, CallId(r, run[r].iteration)),
                                run[r].handler)
           message == NewMessage(run[r].user_prompt, run[r].iterations)
       IN IF acc.sends > 0 /\ SendOutcome(run[r].client) = "raise"
          THEN run' = [run EXCEPT ![r] = [Raised(r) EXCEPT !.new_message = message]]
          ELSE run' = [run EXCEPT ![r].new_message = message,
                                  ![r].call = acc.call,
                                  ![r].response = acc.response,
                                  ![r].spec = acc.spec,
                                  ![r].url = acc.url,
                                  ![r].ran = acc.ran,
                                  ![r].request = NoRequest,
                                  ![r].req_sent = FALSE,
                                  ![r].pc = AfterRun(acc.response),
                                  ![r].exit = IF AfterRun(acc.response) = "decide"
                                              THEN "" ELSE "break"]
    /\ UNCHANGED <<active_connections, sockets, pending_feedback, futures>>

\* _run_pipeline_iteration: one pass of the stage executor over the events
\* of the round, then the test of long_running_function_response.
RunPipelineIteration(r, script) ==
    /\ run[r].pc = "run"
    /\ LET acc == ProcessEvents(RoundStart, Script(script, CallId(r, run[r].iteration)),
                                run[r].handler)
           message == NewMessage(run[r].user_prompt, run[r].iterations)
       IN IF acc.sends > 0 /\ SendOutcome(run[r].client) = "raise"
          THEN run' = [run EXCEPT ![r] = [Raised(r) EXCEPT !.new_message = message]]
          ELSE run' = [run EXCEPT ![r].new_message = message,
                                  ![r].call = acc.call,
                                  ![r].response = acc.response,
                                  ![r].spec = acc.spec,
                                  ![r].url = acc.url,
                                  ![r].ran = acc.ran,
                                  ![r].request = NoRequest,
                                  ![r].req_sent = FALSE,
                                  ![r].pc = AfterRun(acc.response),
                                  ![r].exit = IF AfterRun(acc.response) = "decide"
                                              THEN "" ELSE "break"]
    /\ UNCHANGED <<active_connections, sockets, pending_feedback, futures>>

\* An approval request that shows a placeholder image when no meme was
\* rendered.
ApprovalRequestPlaceholder(iteration, spec, url, id) ==
    [type |-> "approval_request",
     meme_url |-> IF url = NoUrl THEN <<"placeholder", 0>> ELSE url,
     meme_spec |-> spec, iteration |-> iteration, command_id |-> id]

\* The payload _handle_human_decision hands to the feedback handler
ApprovalRequest(iteration, spec, url, id) ==
    [type |-> "approval_request", meme_url |-> url, meme_spec |-> spec,
     iteration |-> iteration, command_id |-> id]

\* A controller that takes the missing handler for consent: the round
\* without a handler is approved at once.
HandleHumanDecisionAutoApprove(r) ==
    /\ run[r].pc = "decide"
    /\ IF ~run[r].handler
       THEN run' = [run EXCEPT ![r].approved = TRUE,
                               ![r].feedback = "",
                               ![r].outcomes = Append(@, TRUE),
                               ![r].pc = "resume"]
       ELSE IF SendOutcome(run[r].client) = "raise"
            THEN run' = [run EXCEPT ![r] = Raised(r)]
            ELSE run' = [run EXCEPT ![r].request = ApprovalRequest(run[r].iteration,
                                                     run[r].spec, run[r].url, run[r].call),
                                    ![r].req_sent = (SendOutcome(run[r].client) = "sent"),
                                    ![r].pc = "sent"]
    /\ UNCHANGED <<active_connections, sockets, pending_feedback, futures>>

\* _handle_human_decision up to the first await of _feedback_handler: without
\* a handler the round is a rejection at once; with one, the approval_request
\* payload goes to send_personal_message.
HandleHumanDecision(r) ==
    /\ run[r].pc = "decide"
    /\ IF ~run[r].handler
       THEN run' = [run EXCEPT ![r].approved = FALSE,
                               ![r].feedback = NoFeedbackHandlerMsg,
                               ![r].outcomes = Append(@, FALSE),
                               ![r].pc = "resume"]
       ELSE IF SendOutcome(run[r].client) = "raise"
            THEN run' = [run EXCEPT ![r] = Raised(r)]
            ELSE run' = [run EXCEPT ![r].request = ApprovalRequest(run[r].iteration,
                                                     run[r].spec, run[r].url, run[r].call),
                                    ![r].req_sent = (SendOutcome(run[r].client) = "sent"),
                                    ![r].pc = "sent"]
    /\ UNCHANGED <<active_connections, sockets, pending_feedback, futures>>

\* _feedback_handler after the send: feedback_manager.create_request, then
\* the await of the future.
CreateRequest(r) ==
    /\ run[r].pc = "sent"
    /\ LET id == CallId(r, run[r].iteration)
       IN /\ futures' = futures \cup {NewFuture(id)}
          /\ pending_feedback' = create_request(pending_feedback, run[r].client, id)
          /\ run' = [run EXCEPT ![r].future = id, ![r].pc = "await"]
    /\ UNCHANGED <<active_connections, sockets>>

\* An await that gives up: the handler goes on without a decision.
FutureReadyTimeout(f) == TRUE

\* `await future` returns only when the future is done.
FutureReady(f) == f.done

\* The values of a decision's "approved" field, written as Python writes
\* them: the strings 'true' and 'false', and the boolean True that json.loads
\* makes of a JSON true.
StrTrue == "'true'"
StrFalse == "'false'"
BoolTrue == "True"

\* approved == "true": the comparison of _handle_human_decision
IsApproved(approved) == approved = StrTrue

\* current_meme_spec or {"error": "Failed to capture meme spec"}
SpecOrSentinel(spec) == IF spec = NoSpec THEN SentinelSpec ELSE spec

\* An entry that puts a default text in place of an empty feedback
IterationDataDefaultFeedback(iteration, spec, url, feedback) ==
    [iteration |-> iteration, meme_spec |-> SpecOrSentinel(spec),
     meme_url |-> url,
     human_feedback |-> IF feedback = "" THEN "No feedback provided" ELSE feedback]

\* The entry _handle_human_decision appends on a rejection
IterationData(iteration, spec, url, feedback) ==
    [iteration |-> iteration, meme_spec |-> SpecOrSentinel(spec),
     meme_url |-> url, human_feedback |-> feedback]

\* A history that keeps the last rejection only
AfterDecisionKeepLast(iterations, approved, entry) ==
    IF approved THEN iterations ELSE <<entry>>

\* The history after a decision
AfterDecision(iterations, approved, entry) ==
    IF approved THEN iterations ELSE Append(iterations, entry)

\* The future is done: _feedback_handler returns its result and
\* _handle_human_decision branches on it.
AwaitDecision(r) ==
    /\ run[r].pc = "await"
    /\ \E f \in futures :
        /\ f.id = run[r].future
        /\ FutureReady(f)
        /\ LET decision == f.result
               approved == IsApproved(decision.approved)
               feedback == decision.feedback
           IN run' = [run EXCEPT
                  ![r].approved = approved,
                  ![r].feedback = IF approved THEN "" ELSE feedback,
                  ![r].decision = [approved |-> decision.approved,
                                   feedback |-> decision.feedback,
                                   round |-> run[r].iteration,
                                   by |-> f.by],
                  ![r].outcomes = Append(@, approved),
                  ![r].iterations = AfterDecision(@, approved,
                        IterationData(run[r].iteration, run[r].spec, run[r].url, feedback)),
                  ![r].future = NoId,
                  ![r].pc = "resume"]
        /\ futures' = IF f.done THEN futures \ {f} ELSE futures
    /\ UNCHANGED <<active_connections, sockets, pending_feedback>>

\* A resume that releases the Reddit toolset as soon as the round is decided.
ResumePipelineClosing(r) ==
    /\ run[r].pc = "resume"
    /\ run' = [run EXCEPT ![r].resumed = Append(@, [id |-> run[r].response,
                                                    confirmed |-> run[r].approved,
                                                    feedback |-> run[r].feedback]),
                          ![r].closed = @ + 1,
                          ![r].pc = "loop"]
    /\ UNCHANGED <<active_connections, sockets, pending_feedback, futures>>

\* _resume_pipeline: the pending response goes back with the decision.
ResumePipeline(r) ==
    /\ run[r].pc = "resume"
    /\ run' = [run EXCEPT ![r].resumed = Append(@, [id |-> run[r].response,
                                                    confirmed |-> run[r].approved,
                                                    feedback |-> run[r].feedback]),
                          ![r].pc = "loop"]
    /\ UNCHANGED <<active_connections, sockets, pending_feedback, futures>>

\* A returned dict that leaves the URL out
ReturnValueNoUrl(approved, iteration, url) ==
    [approved |-> approved, iterations |-> iteration, meme_url |-> NoUrl]

\* The dict generate_meme returns
ReturnValue(approved, iteration, url) ==
    [approved |-> approved, iterations |-> iteration, meme_url |-> url]

\* After the loop: reddit_toolset.close() and the returned dict; the endpoint
\* answers 200.
Cleanup(r) ==
    /\ run[r].pc = "cleanup"
    /\ run' = [run EXCEPT ![r].closed = @ + 1,
                          ![r].result = ReturnValue(run[r].approved, run[r].iteration,
                                                    run[r].url),
                          ![r].status = IF run[r].handler THEN 200 ELSE 0,
                          ![r].pc = "done"]
    /\ UNCHANGED <<active_connections, sockets, pending_feedback, futures>>

\* ------------------------------------------------------------------------
\* ask_approval, the long-running tool of the ApprovalGateway agent
\* ------------------------------------------------------------------------

\* tools.ask_approval: without a confirmation it calls request_confirmation
\* and returns "pending"; with one it returns "approved", or "rejected" with
\* payload.get("feedback", ""), which raises when the payload is None.
ask_approval(meme_url, tool_confirmation) ==
    IF ~tool_confirmation.present
    THEN ToolReturn("pending", NoUrl, "", 1)
    ELSE IF tool_confirmation.confirmed
    THEN ToolReturn("approved", meme_url, "", 0)
    ELSE IF tool_confirmation.payload.kind = "None"
    THEN ToolReturn("AttributeError", NoUrl, "", 0)
    ELSE ToolReturn("rejected", NoUrl,
                    IF tool_confirmation.payload.has_feedback
                    THEN tool_confirmation.payload.feedback ELSE "",
                    0)

\* The executor calls ask_approval for run r with a tool context that holds
\* tool_confirmation.
AskApproval(r, meme_url, tool_confirmation) ==
    /\ run[r].tool.calls < MaxToolCalls
    /\ run' = [run EXCEPT ![r].tool =
                  [calls |-> @.calls + 1,
                   confirmation |-> tool_confirmation,
                   returned |-> ask_approval(meme_url, tool_confirmation)]]
    /\ UNCHANGED <<active_connections, sockets, pending_feedback, futures>>

\* ------------------------------------------------------------------------
\* generate_imgflip_meme, the tool of the MemeGenerator agent
\* ------------------------------------------------------------------------

\* The try block of generate_imgflip_meme: the request, response.json() and
\* the branch on data.get('success'); every exception becomes a failure
\* result with str(e).
CaptionImage(reply) ==
    CASE reply = "ok" -> RenderResult(TRUE, <<"url", 1>>, NoError)
      [] reply = "error_message" -> RenderResult(FALSE, NoUrl, Error("No texts specified"))
      [] reply = "error_bare" -> RenderResult(FALSE, NoUrl, Error("Unknown error"))
      [] reply = "ok_no_data" -> RenderResult(FALSE, NoUrl, Error("'data'"))
      [] reply = "not_object" ->
           RenderResult(FALSE, NoUrl, Error("'list' object has no attribute 'get'"))
      [] reply = "not_json" -> RenderResult(FALSE, NoUrl, Error("Expecting value"))
      [] reply = "request_exception" -> RenderResult(FALSE, NoUrl, Error("Read timed out"))

\* generate_imgflip_meme that posts the request without looking at the
\* credentials.
generate_imgflip_meme_unchecked(credentials, reply) == CaptionImage(reply)

\* utils.generate_imgflip_meme
generate_imgflip_meme(credentials, reply) ==
    IF ~credentials.user \/ ~credentials.pass
    THEN RenderResult(FALSE, NoUrl, Error("IMGFLIP credentials not set"))
    ELSE CaptionImage(reply)

\* The MemeGenerator agent calls generate_imgflip_meme for run r.
GenerateImgflipMeme(r, credentials, reply) ==
    /\ run[r].imgflip.calls < MaxRenderCalls
    /\ run' = [run EXCEPT ![r].imgflip =
                  [calls |-> @.calls + 1,
                   credentials |-> credentials,
                   reply |-> reply,
                   returned |-> generate_imgflip_meme(credentials, reply)]]
    /\ UNCHANGED <<active_connections, sockets, pending_feedback, futures>>

\* ------------------------------------------------------------------------
\* mine_reddit_context, the MCP tool of the DataGatherer agent
\* ------------------------------------------------------------------------

\* reddit_mcp.search_reddit: the first thread URL, else the first reddit.com
\* URL, else None; an exception of the search is logged and gives None.
search_reddit(web) ==
    CASE web.search = "thread" -> <<"reddit.com/r/comments", 0>>
      [] web.search = "fallback" -> <<"reddit.com", 0>>
      [] OTHER -> NoUrl

\* reddit_mcp.scrape_thread: the report of the page, or a text that tells
\* the failure.
scrape_thread(url, web) ==
    CASE web.fetch = "page" -> "SOURCE TITLE POST"
      [] web.fetch = "status" -> "Error: Failed to fetch page"
      [] OTHER -> "Scraping failed"

\* One pass of the loop of mine_reddit_context: the section of a topic.
Section(topic, web) ==
    IF search_reddit(web) = NoUrl
    THEN [topic |-> topic, data |-> "No Reddit threads found."]
    ELSE [topic |-> topic, data |-> scrape_thread(search_reddit(web), web)]

\* mine_reddit_context that stops at the first topic without a URL.
mine_reddit_context_break(topics) ==
    LET missing == {i \in 1..Len(topics) : search_reddit(topics[i].web) = NoUrl}
        last == IF missing = {} THEN Len(topics)
                ELSE CHOOSE i \in missing : \A j \in missing : i <= j
    IN [i \in 1..last |-> Section(topics[i].topic, topics[i].web)]

\* reddit_mcp.mine_reddit_context: the sections that "\n---\n".join puts
\* into the returned text, in their order.
mine_reddit_context(topics) ==
    [i \in 1..Len(topics) |-> Section(topics[i].topic, topics[i].web)]

\* The DataGatherer agent of run r calls mine_reddit_context; one call is
\* followed for a run.
MineRedditContext(r, topics) ==
    /\ ~run[r].reddit.called
    /\ run' = [run EXCEPT ![r].reddit =
                  [called |-> TRUE, topics |-> topics,
                   returned |-> mine_reddit_context(topics)]]
    /\ UNCHANGED <<active_connections, sockets, pending_feedback, futures>>

\* ------------------------------------------------------------------------
\* websocket_endpoint
\* ------------------------------------------------------------------------

\* manager.connect: accept, then the entry of client_id is this socket.
WsConnect(c) ==
    /\ Len(sockets) < MaxSockets
    /\ sockets' = Append(sockets, [client |-> c, open |-> TRUE, handler |-> "recv"])
    /\ active_connections' = [active_connections EXCEPT ![c] = Len(sockets) + 1]
    /\ UNCHANGED <<pending_feedback, futures, run>>

\* The client closes its socket; its handler has not been told yet.
ClientClose(s) ==
    /\ sockets[s].open /\ sockets[s].handler = "recv"
    /\ sockets' = [sockets EXCEPT ![s].open = FALSE]
    /\ UNCHANGED <<active_connections, pending_feedback, futures, run>>

\* ConnectionManager.disconnect
disconnect(client_id) == [active_connections EXCEPT ![client_id] = 0]

\* A disconnect that also drops the pending request of the client.
WsDisconnectCancel(s) ==
    /\ ~sockets[s].open /\ sockets[s].handler = "recv"
    /\ active_connections' = disconnect(sockets[s].client)
    /\ sockets' = [sockets EXCEPT ![s].handler = "ended"]
    /\ pending_feedback' = [pending_feedback EXCEPT ![sockets[s].client] = NoId]
    /\ UNCHANGED <<futures, run>>

\* receive_text raises WebSocketDisconnect: manager.disconnect(client_id)
WsDisconnect(s) ==
    /\ ~sockets[s].open /\ sockets[s].handler = "recv"
    /\ active_connections' = disconnect(sockets[s].client)
    /\ sockets' = [sockets EXCEPT ![s].handler = "ended"]
    /\ UNCHANGED <<pending_feedback, futures, run>>

\* A text frame: JSON of a decision, JSON of anything else with a type (echoed),
\* JSON that is no object (data.get raises AttributeError, which no except
\* clause of the handler catches), or no JSON at all (logged and dropped).
Message(kind, approved, feedback, command_id) ==
    [type |-> kind, approved |-> approved, feedback |-> feedback, command_id |-> command_id]

\* One turn of the receive loop of websocket_endpoint for socket s.
WsReceive(s, data) ==
    /\ sockets[s].open /\ sockets[s].handler = "recv"
    /\ LET c == sockets[s].client
       IN CASE data.type = "decision" ->
                 /\ futures' = resolve_futures(c, data)
                 /\ pending_feedback' = resolve_pending(c, data)
                 /\ UNCHANGED sockets
            [] data.type = "nondict" \/ (data.type = "other" /\ SendOutcome(c) = "raise") ->
                 /\ sockets' = [sockets EXCEPT ![s].open = FALSE, ![s].handler = "ended"]
                 /\ UNCHANGED <<pending_feedback, futures>>
            [] OTHER -> UNCHANGED <<sockets, pending_feedback, futures>>
    /\ UNCHANGED <<active_connections, run>>

\* ------------------------------------------------------------------------
\* Specifications
\* ------------------------------------------------------------------------

Decisions(approvals, feedbacks, ids) ==
    {Message("decision", a, f, i) : a \in approvals, f \in feedbacks, i \in ids}

OtherMessages ==
    {Message(k, "None", "", NoId) : k \in {"other", "nondict", "badjson"}}

SocketIds == 1..Len(sockets)

Server(clients, msgs) ==
    \/ \E c \in clients : WsConnect(c)
    \/ \E s \in SocketIds : ClientClose(s)
    \/ \E s \in SocketIds : WsDisconnect(s)
    \/ \E s \in SocketIds : \E data \in msgs : WsReceive(s, data)

Controller(runs, clients, scripts, prompts) ==
    \/ \E r \in runs : \E c \in clients \cup {NoClient} : \E prompt \in prompts :
            PostGenerateMeme(r, c, prompt)
    \/ \E r \in runs : \E prompt \in prompts : CreateMeme(r, prompt)
    \/ \E r \in runs : LoopHead(r)
    \/ \E r \in runs : \E script \in scripts : RunPipelineIteration(r, script)
    \/ \E r \in runs : HandleHumanDecision(r)
    \/ \E r \in runs : CreateRequest(r)
    \/ \E r \in runs : AwaitDecision(r)
    \/ \E r \in runs : ResumePipeline(r)
    \/ \E r \in runs : Cleanup(r)

\* The decisions a reviewer sends in Spec: an approval that carries a text, a
\* rejection with feedback, and a JSON boolean true; each may name the
\* command_id of any round or an id that was never issued.
ReviewerMessages ==
    Decisions({StrTrue, StrFalse}, {"try a funnier template"},
              {CallId("r1", n) : n \in 1..MAX_ITERATIONS} \cup {BogusId})
    \cup Decisions({BoolTrue}, {"try a funnier template"}, {BogusId})
    \cup OtherMessages

\* One run, started over HTTP by client A or from the command line, with
\* every stage outcome and every kind of frame on the socket.
Next ==
    \/ Server({"A"}, ReviewerMessages)
    \/ Controller({"r1"}, {"A"}, AllScripts, {"AI jobs"})

Spec == Init /\ [][Next]_vars

\* Two runs beside each other on the server, for one client or for two, with
\* sockets that stay open.
ServerOpen(clients, msgs) ==
    \/ \E c \in clients : WsConnect(c)
    \/ \E s \in SocketIds : \E data \in msgs : WsReceive(s, data)

ControllerHttp(runs, clients, scripts, prompts) ==
    \/ \E r \in runs : \E c \in clients : \E prompt \in prompts :
            PostGenerateMeme(r, c, prompt)
    \/ \E r \in runs : LoopHead(r)
    \/ \E r \in runs : \E script \in scripts : RunPipelineIteration(r, script)
    \/ \E r \in runs : HandleHumanDecision(r)
    \/ \E r \in runs : CreateRequest(r)
    \/ \E r \in runs : AwaitDecision(r)
    \/ \E r \in runs : ResumePipeline(r)
    \/ \E r \in runs : Cleanup(r)

NextConcurrent ==
    \/ ServerOpen(Clients, Decisions({StrTrue, StrFalse}, {"try a funnier template"},
                                     {CallId("r1", 1), CallId("r2", 1)}))
    \/ ControllerHttp(RunIds, Clients, {"ok", "no_call", "wrong_resp"}, {"AI jobs"})

SpecConcurrent == Init /\ [][NextConcurrent]_vars

\* The event loop runs every task that is ready, and a pass of the stage
\* executor ends: each step of a run that can be taken is taken.
RunFairness(r) ==
    /\ WF_vars(LoopHead(r))
    /\ WF_vars(\E script \in AllScripts : RunPipelineIteration(r, script))
    /\ WF_vars(HandleHumanDecision(r))
    /\ WF_vars(CreateRequest(r))
    /\ WF_vars(AwaitDecision(r))
    /\ WF_vars(ResumePipeline(r))
    /\ WF_vars(Cleanup(r))

\* One run on a socket that stays open, under that fairness.
NextFair ==
    \/ ServerOpen({"A"}, Decisions({StrTrue, StrFalse}, {"try a funnier template"}, {BogusId}))
    \/ ControllerHttp({"r1"}, {"A"}, AllScripts, {"AI jobs"})

SpecFair == Init /\ [][NextFair]_vars /\ RunFairness("r1")

\* One run for either prompt on a socket that stays open, whose reviewer
\* approves or rejects every round with or without a feedback text.
NextReview ==
    \/ ServerOpen({"A"}, Decisions({StrTrue, StrFalse}, {"", "try a funnier template"},
                                   {BogusId}))
    \/ ControllerHttp({"r1"}, {"A"}, {"ok"}, Prompts)

SpecReview == Init /\ [][NextReview]_vars

\* The calls of ask_approval alone, with every tool context: no
\* confirmation, or a confirmation of either kind with every payload.
NextTool ==
    \E r \in RunIds : \E meme_url \in MemeUrls :
        \E tool_confirmation \in {NoConfirmation} \cup Confirmations :
            AskApproval(r, meme_url, tool_confirmation)

SpecTool == Init /\ [][NextTool]_vars

\* The calls of generate_imgflip_meme alone, with every environment and
\* every reply.
NextRender ==
    \E r \in RunIds : \E credentials \in Credentials : \E reply \in ApiReplies :
        GenerateImgflipMeme(r, credentials, reply)

SpecRender == Init /\ [][NextRender]_vars

\* The calls of mine_reddit_context alone, with every list of topics and
\* every outcome of the search and of the fetch.
NextMine == \E topics \in TopicLists : MineRedditContext("r1", topics)

SpecMine == Init /\ [][NextMine]_vars

\* ------------------------------------------------------------------------
\* The console controller (src/meme_agent/meme_refiner/pipeline.py)
\* ------------------------------------------------------------------------

\* What the reviewer types at the two prompts of the console: the answer to
\* "Approve this meme? (yes/no)" and the line of feedback.
Answers == {"yes", " Y", "no"}
Lines == {"try a funnier template", "  try a funnier template "}
NoLine == "None"

\* input().strip().lower() of an answer, input().strip() of a feedback line
StripLower(answer) == IF answer = " Y" THEN "y" ELSE answer
Strip(line) == IF line = "  try a funnier template " THEN "try a funnier template" ELSE line

\* user_input in ['yes', 'y', 'approve', 'ok']
ConsoleApproves(answer) == StripLower(answer) \in {"yes", "y", "approve", "ok"}

\* The body of the async-for loop of the console's generate_meme for one
\* event: json.loads of a MemeCreator text and the URL of a successful
\* generate_imgflip_meme response are assigned in line, the long-running
\* call and its response are tracked as in the modular controller.
ConsoleProcessEvent(acc, event) ==
    LET parsed == IF event.author = "MemeCreator" /\ event.text[1] \in {"obj", "nonobj"}
                  THEN <<IF event.text[1] = "obj" THEN "spec" ELSE "nonobj", event.text[2]>>
                  ELSE acc.spec
        lrf == get_long_running_function_call(event)
        resp == get_function_response(event, acc.call)
    IN [call |-> IF acc.call = NoId THEN lrf ELSE acc.call,
        response |-> IF acc.call # NoId /\ resp # NoId THEN resp ELSE acc.response,
        spec |-> parsed,
        url |-> IF event.imgflip[1] = "ok" THEN <<"url", event.imgflip[2]>> ELSE acc.url,
        ran |-> acc.ran,
        sends |-> 0]

RECURSIVE ConsoleProcessEvents(_, _)
ConsoleProcessEvents(acc, events) ==
    IF events = <<>> THEN acc
    ELSE ConsoleProcessEvents(ConsoleProcessEvent(acc, Head(events)), Tail(events))

\* The console's generate_meme up to the retry loop.
ConsoleCreateMeme(r, prompt) ==
    /\ run[r].pc = "idle"
    /\ run' = [run EXCEPT ![r].pc = "loop", ![r].client = NoClient, ![r].handler = FALSE,
                          ![r].user_prompt = prompt,
                          ![r].initial_prompt = prompt]
    /\ UNCHANGED <<active_connections, sockets, pending_feedback, futures>>

\* The head of the console's retry loop: iteration += 1, the captured spec
\* and URL are reset, and the previous iterations are listed with
\* prev['meme_spec'].get, which raises for a spec that is no dict.
ConsoleLoopHead(r) ==
    /\ run[r].pc = "loop"
    /\ IF LoopCondition(run[r].approved, run[r].iteration)
       THEN IF ListingRaises(run[r].iterations)
            THEN run' = [run EXCEPT ![r].pc = "raised", ![r].iteration = @ + 1,
                                    ![r].spec = NoSpec, ![r].url = NoUrl]
            ELSE run' = [run EXCEPT ![r].pc = "run", ![r].iteration = @ + 1,
                                    ![r].spec = NoSpec, ![r].url = NoUrl]
       ELSE run' = [run EXCEPT ![r].pc = "cleanup", ![r].exit = "loop_end"]
    /\ UNCHANGED <<active_connections, sockets, pending_feedback, futures>>

\* One entry of the record of what a console run was given: the stage
\* outcomes of a round and what the reviewer typed for it.
Input(script, answer, line) == [script |-> script, answer |-> answer, line |-> line]

\* The console's pass over the events of a round (phase 1), then the test of
\* long_running_function_response.
ConsoleRunPipeline(r, script) ==
    /\ run[r].pc = "run"
    /\ LET acc == ConsoleProcessEvents(RoundStart,
                                       Script(script, CallId(r, run[r].iteration)))
       IN run' = [run EXCEPT ![r].new_message = run[r].user_prompt,
                             ![r].call = acc.call,
                             ![r].response = acc.response,
                             ![r].spec = acc.spec,
                             ![r].url = acc.url,
                             ![r].inputs = Append(@, Input(script, NoLine, NoLine)),
                             ![r].pc = AfterRun(acc.response),
                             ![r].exit = IF AfterRun(acc.response) = "decide"
                                         THEN "" ELSE "break"]
    /\ UNCHANGED <<active_connections, sockets, pending_feedback, futures>>

\* The console's phase 2: the answer is read; on anything but a yes the
\* feedback line is read, the entry is appended, and the template of the
\* rejected spec is printed with current_meme_spec.get, which raises for a
\* truthy spec that is no dict.
ConsoleDecide(r, answer, line) ==
    /\ run[r].pc = "decide"
    /\ LET n == Len(run[r].inputs)
           script == run[r].inputs[n].script
       IN IF ConsoleApproves(answer)
          THEN run' = [run EXCEPT ![r].approved = TRUE,
                                  ![r].feedback = "",
                                  ![r].outcomes = Append(@, TRUE),
                                  ![r].inputs[n] = Input(script, answer, NoLine),
                                  ![r].pc = "resume"]
          ELSE run' = [run EXCEPT ![r].approved = FALSE,
                                  ![r].feedback = Strip(line),
                                  ![r].outcomes = Append(@, FALSE),
                                  ![r].iterations =
                                      Append(@, IterationData(run[r].iteration, run[r].spec,
                                                              run[r].url, Strip(line))),
                                  ![r].inputs[n] = Input(script, answer, line),
                                  ![r].pc = IF run[r].spec[1] = "nonobj"
                                            THEN "raised" ELSE "resume"]
    /\ UNCHANGED <<active_connections, sockets, pending_feedback, futures>>

\* The console's phase 3: the pending response goes back with the decision.
ConsoleResume(r) ==
    /\ run[r].pc = "resume"
    /\ run' = [run EXCEPT ![r].resumed = Append(@, [id |-> run[r].response,
                                                    confirmed |-> run[r].approved,
                                                    feedback |-> run[r].feedback]),
                          ![r].pc = "loop"]
    /\ UNCHANGED <<active_connections, sockets, pending_feedback, futures>>

\* After the console's loop: reddit_toolset.close() and the returned dict,
\* which has no meme_url.
ConsoleCleanup(r) ==
    /\ run[r].pc = "cleanup"
    /\ run' = [run EXCEPT ![r].closed = @ + 1,
                          ![r].result = [approved |-> run[r].approved,
                                         iterations |-> run[r].iteration,
                                         meme_url |-> NoUrl],
                          ![r].pc = "done"]
    /\ UNCHANGED <<active_connections, sockets, pending_feedback, futures>>

\* The decision frame that says what the console reviewer said in a round.
DecisionFrame(input, id) ==
    Message("decision", IF ConsoleApproves(input.answer) THEN StrTrue ELSE StrFalse,
            IF input.line = NoLine THEN "" ELSE Strip(input.line), id)

\* The stage outcomes a round can have under both controllers.
ConsoleScripts == {"ok", "nonobj", "no_call"}

\* A console run c, and a modular run m with a feedback handler on a socket
\* that stays open.  m is given, round by round, the stage outcomes c had in
\* that round, and once it waits for the decision of a round its reviewer
\* sends the decision the console reviewer typed for that round.
NextConsole ==
    LET c == "r2"
        m == "r1"
        n == run[m].iteration
    IN \/ ConsoleCreateMeme(c, "AI jobs")
       \/ ConsoleLoopHead(c)
       \/ \E script \in ConsoleScripts : ConsoleRunPipeline(c, script)
       \/ \E answer \in Answers : \E line \in Lines : ConsoleDecide(c, answer, line)
       \/ ConsoleResume(c)
       \/ ConsoleCleanup(c)
       \/ WsConnect("A")
       \/ PostGenerateMeme(m, "A", "AI jobs")
       \/ LoopHead(m)
       \/ /\ n \in 1..Len(run[c].inputs)
          /\ RunPipelineIteration(m, run[c].inputs[n].script)
       \/ HandleHumanDecision(m)
       \/ CreateRequest(m)
       \/ /\ run[m].pc = "await"
          /\ \E f \in futures : f.id = run[m].future /\ ~f.done
          /\ n \in 1..Len(run[c].inputs)
          /\ run[c].inputs[n].answer # NoLine
          /\ \E s \in SocketIds : WsReceive(s, DecisionFrame(run[c].inputs[n], CallId(m, n)))
       \/ AwaitDecision(m)
       \/ ResumePipeline(m)
       \/ Cleanup(m)

SpecConsole == Init /\ [][NextConsole]_vars

\* ------------------------------------------------------------------------
\* Properties
\* ------------------------------------------------------------------------

Min(a, b) == IF a < b THEN a ELSE b

\* The first round whose outcome was an approval; MAX_ITERATIONS + 1 if none.
FirstApproved(outcomes) ==
    IF \E k \in 1..Len(outcomes) : outcomes[k]
    THEN CHOOSE k \in 1..Len(outcomes) :
            outcomes[k] /\ \A j \in 1..(k - 1) : ~outcomes[j]
    ELSE MAX_ITERATIONS + 1

Rejections(outcomes) == {k \in 1..Len(outcomes) : ~outcomes[k]}

\* C1: a run never starts more than MAX_ITERATIONS rounds, never starts a
\* round after an approved one, and a run whose rounds all raised a
\* suspension and were all decided returns after exactly
\* min(MAX_ITERATIONS, first approved round) rounds.
C1_BoundedTermination ==
    \A r \in RunIds :
        /\ run[r].iteration <= MAX_ITERATIONS
        /\ run[r].iteration <= Min(MAX_ITERATIONS, FirstApproved(run[r].outcomes))
        /\ (run[r].pc = "done" /\ run[r].exit = "loop_end")
             => /\ Len(run[r].outcomes) = run[r].iteration
                /\ run[r].result.iterations =
                       Min(MAX_ITERATIONS, FirstApproved(run[r].outcomes))

\* The run waits for a decision that has not arrived.
Waiting(r) ==
    /\ run[r].pc = "await"
    /\ \E f \in futures : f.id = run[r].future /\ ~f.done

\* C1, termination: under SpecFair a run whose every wait for a decision
\* ends reaches the end of generate_meme (or raises) from every loop test.
C1_Terminates ==
    ([]<>~Waiting("r1")) => (run["r1"].pc = "loop" ~> run["r1"].pc \in {"done", "raised"})

C1_Witness ==
    \E r \in RunIds :
        /\ run[r].pc = "done" /\ run[r].exit = "loop_end"
        /\ run[r].outcomes = <<FALSE, FALSE, TRUE>>
        /\ run[r].result.iterations = 3

\* C2: after round r ends in a rejection the history has exactly r entries,
\* at the start of round n it has n - 1 entries, and an approved round
\* appends nothing.
C2_HistoryLength ==
    \A r \in RunIds :
        /\ Len(run[r].iterations) = Cardinality(Rejections(run[r].outcomes))
        /\ run[r].pc = "run" => Len(run[r].iterations) = run[r].iteration - 1

\* C3: once the decision read for round r has a true approved field, the run
\* is approved, stays in round r, and returns approved = true, iterations = r.
C3_ApprovedDecisionEndsRun ==
    \A r \in RunIds :
        run[r].decision.approved \in {StrTrue, BoolTrue}
          => /\ run[r].approved
             /\ run[r].iteration = run[r].decision.round
             /\ run[r].pc \in {"resume", "loop", "cleanup", "done"}
             /\ run[r].pc = "done"
                  => /\ run[r].result.approved
                     /\ run[r].result.iterations = run[r].decision.round

\* C4: a run whose MAX_ITERATIONS rounds were all rejected raises nothing
\* and returns approved = false with iterations = MAX_ITERATIONS.
C4_ExhaustionIsNormal ==
    \A r \in RunIds :
        (Len(run[r].outcomes) = MAX_ITERATIONS /\ \A k \in 1..MAX_ITERATIONS : ~run[r].outcomes[k])
          => /\ run[r].pc \in {"resume", "loop", "cleanup", "done"}
             /\ run[r].pc = "done"
                  => /\ run[r].result.approved = FALSE
                     /\ run[r].result.iterations = MAX_ITERATIONS
                     /\ run[r].handler => run[r].status = 200

C4_Witness ==
    \E r \in RunIds :
        /\ run[r].handler /\ run[r].pc = "done"
        /\ run[r].outcomes = <<FALSE, FALSE, FALSE, FALSE, FALSE>>
        /\ run[r].decision.round = MAX_ITERATIONS
        /\ run[r].result = ReturnValue(FALSE, MAX_ITERATIONS, run[r].url)

\* C5: a round whose stage execution captured no pending response ends the
\* run: no approval request is sent and no future created for the round, no
\* entry is appended for it, the pipeline is not resumed for it, and the run
\* returns with that round as its last.
C5_FatalAbort ==
    \A r \in RunIds :
        run[r].exit = "break"
          => /\ run[r].pc \in {"cleanup", "done"}
             /\ run[r].response = NoId
             /\ ~run[r].req_sent
             /\ run[r].future = NoId
             /\ \A f \in futures : f.id # CallId(r, run[r].iteration)
             /\ \A c \in Clients : pending_feedback[c] # CallId(r, run[r].iteration)
             /\ Len(run[r].outcomes) = run[r].iteration - 1
             /\ Len(run[r].resumed) = run[r].iteration - 1
             /\ \A i \in 1..Len(run[r].iterations) :
                    run[r].iterations[i].iteration < run[r].iteration
             /\ run[r].pc = "done" => run[r].result.iterations = run[r].iteration

C5_Witness ==
    \E r \in RunIds :
        /\ run[r].exit = "break" /\ run[r].pc = "done"
        /\ run[r].handler
        /\ run[r].iteration = 2
        /\ Len(run[r].iterations) = 1

\* The approval request a client has outstanding: the future in its slot,
\* whose id is the command_id sent in the request's payload.
Outstanding(c) == pending_feedback[c]

\* The rounds of which the decision has been read already
AlreadyDecided(id) ==
    \E r \in RunIds : id[1] = r /\ id[2] \in 1..Len(run[r].outcomes)

\* C6: a decision whose command_id is not the id of the client's outstanding
\* approval request leaves that request pending and its future untouched.
C6_MismatchedDecisionRejected ==
    [][\A s \in SocketIds : \A data \in ReviewerMessages :
          (/\ WsReceive(s, data)
           /\ data.type = "decision"
           /\ Outstanding(sockets[s].client) # NoId
           /\ data.command_id # Outstanding(sockets[s].client))
            => /\ pending_feedback' = pending_feedback
               /\ futures' = futures]_vars

\* C7: an unresolved future always holds its client's slot: no later
\* request of the same client replaces it.
C7_SlotNeverOverwritten ==
    \A f \in futures :
        ~f.done => pending_feedback[run[f.id[1]].client] = f.id

\* C8: a decision sent for a request that was decided before changes no
\* future and no slot, so it is never read as the decision of a later round.
C8_StaleDecisionIgnored ==
    [][\A s \in SocketIds : \A data \in ReviewerMessages :
          (/\ WsReceive(s, data)
           /\ data.type = "decision"
           /\ AlreadyDecided(data.command_id))
            => /\ pending_feedback' = pending_feedback
               /\ futures' = futures]_vars

\* The runs whose client_id no other started run uses
OwnClient(r) ==
    /\ run[r].handler
    /\ \A q \in RunIds \ {r} : run[q].client # run[r].client

\* C9: for a run whose client_id no other run uses, only frames received on
\* a socket of its own client complete its future or become its decision, and
\* while it waits for an undecided request its client's slot holds that
\* request, whatever the other client sends.
C9_ClientsIsolated ==
    \A r \in RunIds :
        OwnClient(r)
          => /\ run[r].decision.round > 0 => run[r].decision.by = run[r].client
             /\ \A f \in futures :
                    f.id[1] = r
                      => /\ f.done => f.by = run[r].client
                         /\ ~f.done => pending_feedback[run[r].client] = f.id
             /\ \A c \in Clients :
                    (pending_feedback[c] # NoId /\ pending_feedback[c][1] = r)
                      => c = run[r].client

C9_Witness ==
    /\ run["r1"].client = "A" /\ run["r2"].client = "B"
    /\ run["r1"].decision.round = 1 /\ run["r1"].decision.by = "A"
    /\ run["r1"].pc = "run" /\ run["r1"].iteration = 2
    /\ run["r2"].pc = "await" /\ pending_feedback["B"] = CallId("r2", 1)
    /\ \E f \in futures : f.id = CallId("r2", 1) /\ ~f.done

\* C10: a run has at most one approval request that is not decided, and it
\* is the one the run is waiting for.
C10_OnePendingPerRun ==
    \A r \in RunIds :
        LET open == {f \in futures : f.id[1] = r /\ ~f.done}
        IN /\ Cardinality(open) <= 1
           /\ \A f \in open : run[r].pc = "await" /\ run[r].future = f.id
                              /\ f.id = CallId(r, run[r].iteration)
                              /\ f.id = run[r].call

C10_Witness ==
    \E r \in RunIds :
        /\ run[r].pc = "await" /\ run[r].iteration = 3
        /\ \E f \in futures : f.id = CallId(r, 3) /\ ~f.done
        /\ Len(run[r].iterations) = 2

\* Where a run stands in its current round: how many decisions it has read
\* and how many resumes it has finished.
RoundOrder(r) ==
    LET n == run[r].iteration
        decided == Len(run[r].outcomes)
        resumes == Len(run[r].resumed)
    IN /\ run[r].pc \in {"run", "decide", "sent", "await"}
            => n >= 1 /\ decided = n - 1 /\ resumes = n - 1
       /\ run[r].pc = "resume" => n >= 1 /\ decided = n /\ resumes = n - 1
       /\ run[r].pc = "loop" => decided = n /\ resumes = n
       /\ \A f \in futures : f.id[1] = r => f.id[2] = n
       /\ \A c \in Clients : pending_feedback[c][1] = r => pending_feedback[c][2] = n

\* A round of r starts: the loop test passed and the round counter moved on.
RoundStarts(r) == run'[r].iteration # run[r].iteration

\* C11: the rounds of a run are strictly sequential.  Round n + 1 starts only
\* from the loop test, when n decisions have been read (the last of them the
\* decision of round n) and n resumes have finished, and every future and
\* slot of the run belongs to its current round: no two rounds are in
\* progress at once.
C11_RoundsSequential ==
    /\ [](\A r \in RunIds : RoundOrder(r))
    /\ [][\A r \in RunIds :
            RoundStarts(r)
              => /\ run'[r].iteration = run[r].iteration + 1
                 /\ run[r].pc = "loop"
                 /\ Len(run[r].outcomes) = run[r].iteration
                 /\ Len(run[r].resumed) = run[r].iteration
                 /\ (run[r].handler /\ run[r].iteration >= 1)
                      => run[r].decision.round = run[r].iteration
                 /\ \A f \in futures : f.id[1] # r]_vars

C11_Witness ==
    \E r \in RunIds :
        /\ run[r].pc = "run" /\ run[r].iteration = 3
        /\ run[r].handler
        /\ run[r].decision.round = 2
        /\ Len(run[r].resumed) = 2 /\ run[r].resumed[2].id = CallId(r, 2)

\* Every decision frame a reviewer sends in one of the specifications
AnyDecision ==
    Decisions({StrTrue, StrFalse, BoolTrue}, {"", "try a funnier template"}, CommandIds)

\* The handler of run r is suspended on the future it created for its client.
Suspended(r) ==
    /\ run[r].pc = "await"
    /\ \E f \in futures : f.id = run[r].future /\ ~f.done

\* C12: once _feedback_handler has created its request for client c, the
\* next decision frame processed for c completes the handler's future with
\* exactly the frame's data and removes c's slot, the handler returns only a
\* completed future, and what it returns is that data.
C12_NextDecisionDelivered ==
    [][\A r \in RunIds :
          /\ \A s \in SocketIds : \A data \in AnyDecision :
                (/\ Suspended(r)
                 /\ sockets[s].client = run[r].client
                 /\ WsReceive(s, data))
                  => /\ \E f \in futures' :
                            f.id = run[r].future /\ f.done /\ f.result = data
                     /\ pending_feedback'[run[r].client] = NoId
          /\ AwaitDecision(r)
                => /\ ~Suspended(r)
                   /\ run'[r].decision.approved = Future(run[r].future).result.approved
                   /\ run'[r].decision.feedback = Future(run[r].future).result.feedback]_vars

\* How a run that returned left the retry loop.
Outcome(r) ==
    IF run[r].approved THEN "approved"
    ELSE IF run[r].exit = "break" THEN "fatal abort"
    ELSE "rejection exhausted"

\* C13: the fields generate_meme returns tell the three terminal outcomes
\* apart: two runs that return the same approved, iterations and meme_url
\* ended the same way.
C13_OutcomesDistinguished ==
    \A r, q \in RunIds :
        (run[r].pc = "done" /\ run[q].pc = "done" /\ run[r].result = run[q].result)
          => Outcome(r) = Outcome(q)

\* C14: no exception leaves generate_meme: a run that was started is in its
\* loop or has returned its result dict, also after the feedback handler
\* or a round's pass raised.
C14_NeverRaises ==
    \A r \in RunIds :
        /\ run[r].pc # "raised"
        /\ run[r].pc = "done" => run[r].result = ReturnValue(run[r].approved,
                                                            run[r].iteration, run[r].url)

\* C15: whatever MemeCreator emitted, the entry of a rejected round holds
\* the captured spec or the sentinel, never None, and every round the loop
\* test lets through starts its pass: no entry makes the start of a later
\* round raise.
C15_SpecFailureTolerated ==
    /\ [](\A r \in RunIds : \A i \in 1..Len(run[r].iterations) :
            run[r].iterations[i].meme_spec # NoSpec)
    /\ [][\A r \in RunIds :
            (LoopHead(r) /\ LoopCondition(run[r].approved, run[r].iteration))
              => run'[r].pc = "run"]_vars

\* C16: a round asks for approval exactly when its pass captured a pending
\* response, whatever it captured as meme URL.  The approval_request of a
\* round carries the round's meme URL as it was captured, None when the
\* rendering failed, and the entry of a rejected round carries the same;
\* a round without pending response builds no request even with a URL.
C16_ApprovalWithoutUrl ==
    \A r \in RunIds :
        /\ run[r].pc \in {"decide", "sent", "await", "resume"} => run[r].response # NoId
        /\ (run[r].handler /\ run[r].pc \in {"sent", "await", "resume"})
             => /\ run[r].request.type = "approval_request"
                /\ run[r].request.meme_url = run[r].url
                /\ run[r].request.iteration = run[r].iteration
                /\ run[r].request.command_id = run[r].call
        /\ run[r].req_sent => run[r].request.meme_url = run[r].url
        /\ run[r].exit = "break" => run[r].response = NoId /\ run[r].request = NoRequest
        /\ (run[r].handler /\ run[r].pc = "resume" /\ ~run[r].approved)
             => LET last == run[r].iterations[Len(run[r].iterations)]
                IN /\ last.iteration = run[r].iteration
                   /\ last.meme_url = run[r].url

C16_Witness ==
    \E r \in RunIds :
        /\ run[r].pc = "resume" /\ ~run[r].approved
        /\ run[r].url = NoUrl
        /\ run[r].req_sent
        /\ run[r].request.type = "approval_request" /\ run[r].request.meme_url = NoUrl
        /\ run[r].iterations[Len(run[r].iterations)].meme_url = NoUrl

\* C17: ask_approval entered without a confirmation calls
\* request_confirmation once and returns "pending"; entered with a
\* confirmation it calls request_confirmation not at all and returns
\* "approved" with the meme URL when confirmed, otherwise "rejected" with
\* the payload's feedback, the empty string when the payload has none.
C17_TwoStepProtocol ==
    \A r \in RunIds :
        run[r].tool.calls > 0
          => LET confirmation == run[r].tool.confirmation
                 returned == run[r].tool.returned
             IN /\ ~confirmation.present
                     => returned.status = "pending" /\ returned.requested = 1
                /\ (confirmation.present /\ confirmation.confirmed)
                     => returned.status = "approved" /\ returned.requested = 0
                /\ (confirmation.present /\ ~confirmation.confirmed)
                     => /\ returned.status = "rejected"
                        /\ returned.requested = 0
                        /\ returned.feedback =
                              IF confirmation.payload.has_feedback
                              THEN confirmation.payload.feedback ELSE ""

\* s is t with entries added at its end, or t itself.
Extends(s, t) == Len(s) >= Len(t) /\ SubSeq(s, 1, Len(t)) = t

\* C18: the history is append-only, no step of a run changes, removes or
\* reorders an entry, and the iteration fields of the entries are the
\* numbers of the rounds they were appended in: rounds of the run that were
\* decided, in strictly increasing order.
C18_HistoryAppendOnly ==
    /\ [][\A r \in RunIds :
            /\ Extends(run'[r].iterations, run[r].iterations)
            /\ run'[r].iterations # run[r].iterations
                 => /\ Len(run'[r].iterations) = Len(run[r].iterations) + 1
                    /\ run'[r].iterations[Len(run'[r].iterations)].iteration
                         = run[r].iteration]_vars
    /\ [](\A r \in RunIds :
            LET h == run[r].iterations
            IN /\ \A i \in 1..Len(h) :
                     /\ h[i].iteration \in 1..Len(run[r].outcomes)
                     /\ ~run[r].outcomes[h[i].iteration]
               /\ \A i, j \in 1..Len(h) : i < j => h[i].iteration < h[j].iteration)

C18_Witness ==
    \E r \in RunIds :
        /\ run[r].pc = "await" /\ run[r].iteration = 4
        /\ Len(run[r].iterations) = 3
        /\ \A i \in 1..3 : run[r].iterations[i].iteration = i
        /\ run[r].iterations[1].meme_url # run[r].iterations[2].meme_url

\* C19: the entry of a rejected round carries the feedback string of the
\* decision that rejected it, the empty string when the decision's feedback
\* is empty; that decision is counted among the run's decisions, and no later
\* step changes the feedback of an entry.
C19_FeedbackRecorded ==
    /\ [](\A r \in RunIds :
            LET d == run[r].decision
            IN d.round > 0
                 => /\ Len(run[r].outcomes) >= d.round
                    /\ ~run[r].outcomes[d.round]
                         => \E i \in 1..Len(run[r].iterations) :
                               /\ run[r].iterations[i].iteration = d.round
                               /\ run[r].iterations[i].human_feedback = d.feedback)
    /\ [][\A r \in RunIds : \A i \in 1..Len(run[r].iterations) :
            /\ Len(run'[r].iterations) >= i
            /\ run'[r].iterations[i].human_feedback
                 = run[r].iterations[i].human_feedback]_vars

C19_Witness ==
    \E r \in RunIds :
        /\ run[r].pc = "run" /\ run[r].iteration = 3
        /\ run[r].outcomes = <<FALSE, FALSE>>
        /\ run[r].decision.round = 2 /\ run[r].decision.feedback = ""
        /\ Len(run[r].iterations) = 2
        /\ run[r].iterations[1].human_feedback = "try a funnier template"
        /\ run[r].iterations[2].human_feedback = ""

\* C20: the prompt of a run never changes: user_prompt and
\* iteration_context["initial_prompt"] keep the value the run was started
\* with, and the user message that starts a round is that prompt in every
\* round, whatever decisions and feedback the history holds.
C20_PromptUnchanged ==
    /\ [](\A r \in RunIds :
            run[r].pc \notin {"idle", "refused"}
              => /\ run[r].user_prompt \in Prompts
                 /\ run[r].initial_prompt = run[r].user_prompt
                 /\ run[r].new_message \in {NoPrompt, run[r].user_prompt}
                 /\ (run[r].iteration >= 1 /\ run[r].pc # "run")
                      => run[r].new_message = run[r].user_prompt)
    /\ [][\A r \in RunIds :
            run[r].pc # "idle"
              => /\ run'[r].user_prompt = run[r].user_prompt
                 /\ run'[r].initial_prompt = run[r].initial_prompt
                 /\ run[r].new_message # NoPrompt
                      => run'[r].new_message = run[r].new_message]_vars

C20_Witness ==
    \E r \in RunIds :
        /\ run[r].pc = "decide" /\ run[r].iteration = 3
        /\ run[r].user_prompt = "monday blues"
        /\ run[r].initial_prompt = "monday blues"
        /\ run[r].new_message = "monday blues"
        /\ Len(run[r].iterations) = 2
        /\ run[r].iterations[2].human_feedback = "try a funnier template"

\* C21: the event_log messages of a round's pass do not steer the run:
\* whether they are delivered, skipped or fail, the pass ends where the
\* events alone lead it, at the human decision when a pending response was
\* captured and at the end of the loop otherwise.
C21_EventLogNotControl ==
    [][\A r \in RunIds : \A script \in AllScripts :
          RunPipelineIteration(r, script)
            => LET acc == ProcessEvents(RoundStart,
                                        Script(script, CallId(r, run[r].iteration)), FALSE)
               IN /\ run'[r].pc = AfterRun(acc.response)
                  /\ run'[r].response = acc.response
                  /\ run'[r].iterations = run[r].iterations]_vars

\* C22: reddit_toolset.close() is called at most once and only when the
\* retry loop has ended: never while the run is in a round, between two
\* rounds or waiting for a decision.
C22_ToolsetOpenDuringRun ==
    \A r \in RunIds :
        /\ run[r].closed <= 1
        /\ run[r].closed = 1 => run[r].pc = "done" /\ run[r].exit \in {"loop_end", "break"}
        /\ run[r].pc = "done" => run[r].closed = 1

C22_Witness ==
    \E r \in RunIds :
        /\ run[r].pc = "done" /\ run[r].closed = 1
        /\ run[r].iteration = 3 /\ run[r].approved
        /\ Len(run[r].resumed) = 3

\* C23: the pipeline runs DataGatherer, MemeCreator, MemeGenerator and
\* ApprovalGateway in this order: when a round has raised its approval
\* request, the events seen before it came from the research, the synthesis
\* and the render stage, in this order.
C23_StagesInOrder ==
    /\ sub_agents = <<"DataGatherer", "MemeCreator", "MemeGenerator", "ApprovalGateway">>
    /\ \A r \in RunIds :
          run[r].call # NoId
            => run[r].ran = <<"DataGatherer", "MemeCreator", "MemeGenerator">>

C23_Witness ==
    \E r \in RunIds :
        /\ run[r].pc = "decide" /\ run[r].iteration = 2
        /\ run[r].call = CallId(r, 2)
        /\ run[r].ran = <<"DataGatherer", "MemeCreator", "MemeGenerator">>
        /\ run[r].spec = <<"spec", 2>> /\ run[r].url = <<"url", 2>>

C25_OneSectionPerTopic ==
    \A r \in RunIds :
        run[r].reddit.called
          => LET topics == run[r].reddit.topics
                 returned == run[r].reddit.returned
             IN /\ Len(returned) = Len(topics)
                /\ \A i \in 1..Len(topics) :
                      /\ returned[i].topic = topics[i].topic
                      /\ topics[i].web.search \in {"no_results", "exception"}
                           <=> returned[i].data = "No Reddit threads found."

C25_Witness ==
    \E r \in RunIds :
        /\ run[r].reddit.called
        /\ Len(run[r].reddit.topics) = 2
        /\ run[r].reddit.topics[1].web.search = "exception"
        /\ run[r].reddit.topics[2].web.fetch = "exception"
        /\ run[r].reddit.returned[1] =
              [topic |-> "monday blues", data |-> "No Reddit threads found."]
        /\ run[r].reddit.returned[2] = [topic |-> "AI jobs", data |-> "Scraping failed"]

\* C26: every round that captured a pending response is resumed exactly
\* once, after its decision and before the next round, approved or not: the
\* n-th resume carries the id of round n's pending response, confirmed = the
\* approval of round n's decision, and the feedback of a rejecting decision.
C26_ResumedOncePerRound ==
    \A r \in RunIds :
        LET resumed == run[r].resumed
            d == run[r].decision
        IN /\ Len(resumed) = IF run[r].pc = "resume" THEN Len(run[r].outcomes) - 1
                              ELSE Len(run[r].outcomes)
           /\ \A n \in 1..Len(resumed) : resumed[n].id = CallId(r, n)
           /\ (run[r].handler /\ d.round \in 1..Len(resumed))
                => /\ resumed[d.round].confirmed <=> d.approved \in {StrTrue, BoolTrue}
                   /\ ~resumed[d.round].confirmed
                        => resumed[d.round].feedback = d.feedback

\* C27: a round is taken as suspended only with a long-running call and a
\* later function response of the same id.  The call a round tracks is the
\* first it detected, the one the round issued; a response it captured has
\* that id; a round in its human decision has both; and a round that
\* detected a call but captured no response for it has left the loop by the
\* fatal abort.
C27_SuspensionNeedsMatchingResponse ==
    \A r \in RunIds :
        /\ run[r].call # NoId => run[r].call[1] = r /\ run[r].call[2] \in 1..run[r].iteration
        /\ run[r].response # NoId => run[r].call # NoId /\ run[r].response = run[r].call
        /\ run[r].pc \in {"decide", "sent", "await", "resume"}
             => /\ run[r].call = CallId(r, run[r].iteration)
                /\ run[r].response = run[r].call
        /\ (run[r].call # NoId /\ run[r].response = NoId)
             => /\ run[r].pc \in {"cleanup", "done"}
                /\ run[r].exit = "break"
                /\ run[r].call = CallId(r, run[r].iteration)
                /\ Len(run[r].outcomes) = run[r].iteration - 1

C27_Witness ==
    \E r \in RunIds :
        /\ run[r].pc = "done" /\ run[r].exit = "break"
        /\ run[r].iteration = 2
        /\ run[r].call = CallId(r, 2) /\ run[r].response = NoId
        /\ run[r].resumed[1].id = CallId(r, 1)

\* C28: a POST /generate-meme whose client_id is missing or not connected is
\* answered with status 400 and starts no run.
C28_NotConnectedIs400 ==
    \A r \in RunIds :
        run[r].pc = "refused"
          => /\ run[r].status = 400
             /\ run[r].iteration = 0 /\ run[r].user_prompt = NoPrompt

\* The approval request of r's current round was sent to its client and no
\* decision for it has been read yet.
RequestOut(r) ==
    /\ run[r].req_sent
    /\ run[r].pc \in {"sent", "await"}
    /\ \A f \in futures : f.id = CallId(r, run[r].iteration) => ~f.done

\* C29: no decision is lost: while the approval request of a round has been
\* sent to a client and is not yet decided, a decision frame that
\* websocket_endpoint receives from that client completes the future of
\* that round's request, wherever the handler stands between its send and
\* its await.
C29_NoDecisionLost ==
    \A r \in RunIds : \A s \in SocketIds : \A data \in AnyDecision :
        (/\ RequestOut(r)
         /\ sockets[s].client = run[r].client
         /\ sockets[s].open /\ sockets[s].handler = "recv")
          => \E f \in resolve_futures(run[r].client, data) :
                f.id = CallId(r, run[r].iteration) /\ f.done /\ f.result = data

\* Socket s was accepted and websocket_endpoint has not seen it end: a close
\* by the client counts only once receive_text has raised for it.
StillOpen(s) == sockets[s].handler = "recv"

\* C30: a client_id is a key of active_connections exactly when a WebSocket
\* accepted for it is still open, and the entry is then such a socket of
\* that client_id, whatever the order of connects, disconnects and handler
\* endings.
C30_ActiveIffOpen ==
    \A c \in Clients :
        /\ (active_connections[c] # 0)
              <=> (\E s \in SocketIds : sockets[s].client = c /\ StillOpen(s))
        /\ active_connections[c] # 0
              => /\ sockets[active_connections[c]].client = c
                 /\ StillOpen(active_connections[c])

\* C31: every pending slot that _feedback_handler created is for an
\* approval_request that was sent on an open WebSocket of the client: a run
\* never waits for the decision on a request that send_personal_message
\* skipped because the client was not in active_connections.
C31_SlotOnlyForSentRequest ==
    \A r \in RunIds :
        (/\ run[r].pc = "await"
         /\ pending_feedback[run[r].client] = run[r].future)
          => run[r].req_sent

\* C32: a WebSocket disconnect of a client leaves pending_feedback as it
\* was: the client's slot is neither resolved nor removed and the run that
\* waits on it stays suspended; a decision frame that arrives afterwards on
\* any connection under the same client_id, a new one included, completes
\* the future of the suspended run with the frame's data.
C32_DisconnectKeepsSlot ==
    /\ [][\A s \in SocketIds :
              WsDisconnect(s) => /\ pending_feedback' = pending_feedback
                                 /\ futures' = futures
                                 /\ run' = run]_vars
    /\ [](\A r \in RunIds : \A s \in SocketIds : \A data \in AnyDecision :
              (/\ Suspended(r)
               /\ sockets[s].client = run[r].client
               /\ sockets[s].open /\ sockets[s].handler = "recv")
                => \E f \in resolve_futures(run[r].client, data) :
                      f.id = run[r].future /\ f.done /\ f.result = data)

\* The only connection of A has ended with a disconnect, which removed A from
\* active_connections, after the approval request went out on it: the slot of
\* A still holds the future of the run, and the run is still suspended on it.
C32_Witness ==
    /\ Len(sockets) = 1
    /\ sockets[1].client = "A" /\ sockets[1].handler = "ended"
    /\ active_connections["A"] = 0
    /\ run["r1"].req_sent
    /\ Suspended("r1")
    /\ pending_feedback["A"] = run["r1"].future

\* C33: in a run of generate_meme without a feedback handler (create_meme),
\* a round that raised a suspension is decided at once as a rejection with
\* the feedback "No feedback handler provided": no request is built, no slot
\* or future is created and the run is never at an await; the pipeline is
\* resumed with confirmed = false and that feedback for the pending
\* response of the round; and the run never returns approved = true.
C33_NoHandlerRejects ==
    /\ [][\A r \in RunIds :
              /\ (HandleHumanDecision(r) /\ ~run[r].handler)
                    => /\ run'[r].pc = "resume"
                       /\ ~run'[r].approved
                       /\ run'[r].feedback = NoFeedbackHandlerMsg
                       /\ run'[r].request = NoRequest
                       /\ futures' = futures /\ pending_feedback' = pending_feedback
              /\ (ResumePipeline(r) /\ ~run[r].handler)
                    => run'[r].resumed[Len(run'[r].resumed)] =
                          [id |-> run[r].response, confirmed |-> FALSE,
                           feedback |-> NoFeedbackHandlerMsg]]_vars
    /\ [](\A r \in RunIds :
              (run[r].pc # "idle" /\ ~run[r].handler /\ run[r].pc # "refused")
                => /\ run[r].pc \notin {"sent", "await"}
                   /\ ~run[r].approved
                   /\ run[r].pc = "done" => ~run[r].result.approved)

\* A run without a handler has returned after five rounds, each resumed as
\* a rejection.
C33_Witness ==
    /\ run["r1"].pc = "done" /\ ~run["r1"].handler
    /\ run["r1"].client = NoClient
    /\ run["r1"].result = ReturnValue(FALSE, MAX_ITERATIONS, run["r1"].url)
    /\ Len(run["r1"].resumed) = MAX_ITERATIONS
    /\ \A i \in 1..MAX_ITERATIONS :
          /\ ~run["r1"].resumed[i].confirmed
          /\ run["r1"].resumed[i].feedback = NoFeedbackHandlerMsg

\* A decision whose approved field says yes: the string "true" or the JSON
\* boolean true.
Approves(decision) == decision.approved \in {StrTrue, BoolTrue}

\* C34: when the decision of a round approves it, the feedback text the
\* decision carries is ignored: reading the decision leaves the history as
\* it was, and the pipeline is resumed with an empty feedback string.
C34_ApprovalIgnoresFeedback ==
    [][\A r \in RunIds :
          /\ (AwaitDecision(r) /\ Approves(Future(run[r].future).result))
                => /\ run'[r].iterations = run[r].iterations
                   /\ run'[r].feedback = ""
          /\ (/\ ResumePipeline(r)
              /\ run[r].handler
              /\ Approves(run[r].decision))
                => run'[r].resumed[Len(run'[r].resumed)].feedback = ""]_vars

\* C35: the meme_url generate_meme returns is what the last executed round
\* captured: the URL rendered in that round, or None when that round
\* rendered none; in an approved run it is the meme_url of the
\* approval_request of the approving round, the last one.
C35_ReturnedUrlOfLastRound ==
    \A r \in RunIds :
        run[r].pc = "done"
          => /\ run[r].result.meme_url = run[r].url
             /\ run[r].result.meme_url \in {NoUrl, <<"url", run[r].result.iterations>>}
             /\ run[r].result.approved
                  => /\ run[r].request.type = "approval_request"
                     /\ run[r].request.iteration = run[r].result.iterations
                     /\ run[r].request.meme_url = run[r].result.meme_url

\* A run approved in its second round, after a first round that rendered
\* another URL, has returned the URL of the second round.
C35_Witness ==
    /\ run["r1"].pc = "done"
    /\ run["r1"].result = ReturnValue(TRUE, 2, <<"url", 2>>)
    /\ run["r1"].request.meme_url = <<"url", 2>>
    /\ Len(run["r1"].iterations) = 1
    /\ run["r1"].iterations[1].meme_url = <<"url", 1>>

\* What a round numbered n can have captured: a spec, or a JSON value that
\* is no object, of that round's MemeCreator event, and a URL of that round's
\* render, or nothing.
SpecsOfRound(n) == {NoSpec, <<"spec", n>>, <<"nonobj", n>>}
UrlsOfRound(n) == {NoUrl, <<"url", n>>}

\* C36: the meme_spec and the meme_url of a round's approval request and of
\* its history entry come from events of that round alone: they are what
\* round n captured, or None (in the entry, the placeholder for a spec that
\* was not captured), never the spec or the URL of an earlier round.
C36_CapturedInSameRound ==
    \A r \in RunIds :
        /\ run[r].request.type = "approval_request"
              => /\ run[r].request.meme_spec \in SpecsOfRound(run[r].request.iteration)
                 /\ run[r].request.meme_url \in UrlsOfRound(run[r].request.iteration)
        /\ \A i \in 1..Len(run[r].iterations) :
              LET entry == run[r].iterations[i]
              IN /\ entry.meme_spec \in
                        (SpecsOfRound(entry.iteration) \ {NoSpec}) \cup {SentinelSpec}
                 /\ entry.meme_url \in UrlsOfRound(entry.iteration)

\* Round 1 captured a spec and a URL and was rejected; round 2 captured
\* neither, its request showed neither, and its entry holds the placeholder.
C36_Witness ==
    /\ Len(run["r1"].iterations) = 2
    /\ run["r1"].iterations[1].meme_spec = <<"spec", 1>>
    /\ run["r1"].iterations[1].meme_url = <<"url", 1>>
    /\ run["r1"].iterations[2].meme_spec = SentinelSpec
    /\ run["r1"].iterations[2].meme_url = NoUrl
    /\ run["r1"].request = ApprovalRequest(2, NoSpec, NoUrl, CallId("r1", 2))

\* C37: however generate_meme ends (it returns after an approval, after the
\* last round or after a fatal abort, or an exception leaves it), the Reddit
\* toolset has been closed exactly once.
C37_ToolsetClosedOnEveryExit ==
    \A r \in RunIds :
        run[r].pc \in {"done", "raised"} => run[r].closed = 1

\* A run has ended: generate_meme returned, or an exception left it.
Finished(r) == run[r].pc \in {"done", "raised"}

\* C38: given the same stage outcomes round by round and the same reviewer
\* decisions, the modular controller with a feedback handler and the
\* console controller end alike: both return or both raise, after the same
\* number of rounds, with the same history, and what they return has the
\* same approved flag and the same iteration count.
C38_ControllersAgree ==
    (Finished("r1") /\ Finished("r2") /\ run["r1"].handler)
      => /\ run["r1"].pc = run["r2"].pc
         /\ run["r1"].iteration = run["r2"].iteration
         /\ run["r1"].iterations = run["r2"].iterations
         /\ run["r1"].outcomes = run["r2"].outcomes
         /\ run["r1"].result.approved = run["r2"].result.approved
         /\ run["r1"].result.iterations = run["r2"].result.iterations

====
